---- MODULE Spec2Model ----
(***************************************************************************)
(* mcRiggingToolkit: the RiggingToolsUI dialog (main.py) and the centroid  *)
(* joint helper (core/centroid_joint_creation.py), modelled over a host    *)
(* scene graph.  Node names and typed text are sequences of one-character  *)
(* strings, so that strip(), split("|"), the f-string formatting and the   *)
(* existence test act on the characters as the Python code does.           *)
(***************************************************************************)
EXTENDS Integers, Sequences, FiniteSets, TLC

VARIABLES
    nodes,          \* the host scene: node name -> [type, parent, t, color]
    selection,      \* the host's active selection list (ordered items)
    ctrl_color,     \* RiggingToolsUI.ctrl_color: None or (redF, greenF, blueF)
    custom_name,    \* ctrl_custom_name_checkbox.isChecked()
    last            \* the last handler run: its input, pre-state and outcome

vars == <<nodes, selection, ctrl_color, custom_name, last>>

(***************************************************************************)
(* Bounds of the model.                                                    *)
(***************************************************************************)
MaxCtrls == 2       \* create-controller clicks that reach curve creation
MaxRigs == 1        \* create-rig-template clicks that reach group creation
MaxSel == 2         \* items in the selection the centroid is taken of
MaxJoints == 1      \* joints created in one run
MaxCounter == 2     \* highest counter among the names of a naming scene
FullCount == 99     \* counters 1..FullCount all taken in the full scene

(***************************************************************************)
(* Characters, names and the string operations of the code.                *)
(***************************************************************************)
None == "None"
WORLD == <<>>
Whitespace == {" ", "\t"}
DigitChars == <<"0", "1", "2", "3", "4", "5", "6", "7", "8", "9">>

Max(S) == CHOOSE m \in S : \A k \in S : k <= m

\* str.strip()
RECURSIVE LStrip(_)
LStrip(s) == IF s = <<>> THEN s
             ELSE IF Head(s) \in Whitespace THEN LStrip(Tail(s)) ELSE s
RECURSIVE RStrip(_)
RStrip(s) == IF s = <<>> THEN s
             ELSE IF s[Len(s)] \in Whitespace
                  THEN RStrip(SubSeq(s, 1, Len(s) - 1)) ELSE s
Strip(s) == RStrip(LStrip(s))

\* controller_name.split("|")[-1]
LastSegment(s) ==
    LET bars == {i \in 1..Len(s) : s[i] = "|"}
        from == IF bars = {} THEN 1 ELSE Max(bars) + 1
    IN  SubSeq(s, from, Len(s))

\* str(i) for i >= 0
RECURSIVE Dec(_)
Dec(i) == IF i < 10 THEN <<DigitChars[i + 1]>>
          ELSE Dec(i \div 10) \o <<DigitChars[(i % 10) + 1]>>

\* a faulty variant of the format: no padding
Fmt02dNoPad(i) == Dec(i)
\* the format spec {i:02d}: decimal, zero-padded on the left to width two
Fmt02d(i) == LET d == Dec(i) IN IF Len(d) < 2 THEN <<"0">> \o d ELSE d

CTRL == <<"_", "c", "t", "r", "l">>
OFFSET == <<"_", "o", "f", "f", "s", "e", "t">>
PRX_GRP == <<"p", "r", "x", "_", "g", "r", "p">>
RENDER_GRP == <<"r", "e", "n", "d", "e", "r", "_", "g", "r", "p">>
GEO_GRP == <<"g", "e", "o", "_", "g", "r", "p">>
ANIM_GRP == <<"a", "n", "i", "m", "_", "g", "r", "p">>
EXPORT_GRP == <<"e", "x", "p", "o", "r", "t", "_", "g", "r", "p">>
JNT_GRP == <<"j", "n", "t", "_", "g", "r", "p">>
CTRL_GRP == <<"c", "t", "r", "l", "_", "g", "r", "p">>

(***************************************************************************)
(* The host scene graph, as the commands of maya.cmds and OpenMaya that    *)
(* the code calls act on it.  A node is [type, parent, t, color]: t is its *)
(* world-space translation, color its RGB override (None when disabled).   *)
(***************************************************************************)
ORIGIN == <<0, 0, 0>>
NewNode(type, parent) == [type |-> type, parent |-> parent, t |-> ORIGIN, color |-> None]
Item(name) == [node |-> name, comp |-> "none", elems |-> <<>>]

\* cmds.objExists(name)
objExists(n, name) == name \in DOMAIN n

\* The name the host gives a new node: the requested one when it is free,
\* else the requested one followed by the first number that makes it free.
HostName(requested, n) ==
    IF requested \notin DOMAIN n THEN requested
    ELSE LET free(k) == (requested \o Dec(k)) \notin DOMAIN n
             k == CHOOSE j \in 1..(Cardinality(DOMAIN n) + 1) :
                      free(j) /\ \A m \in 1..(j - 1) : ~free(m)
         IN  requested \o Dec(k)

IsDag(n, name) == n[name].type # "shader"

\* MDagPath.fullPathName()
RECURSIVE FullPathName(_, _)
FullPathName(n, name) ==
    IF n[name].parent = WORLD THEN <<"|">> \o name
    ELSE FullPathName(n, n[name].parent) \o <<"|">> \o name

\* om.MGlobal.getSelectionListByName(name): the nodes the name identifies
Resolve(n, name) ==
    {k \in DOMAIN n : k = name \/ (IsDag(n, k) /\ FullPathName(n, k) = name)}

Children(n, name) == {k \in DOMAIN n : n[k].parent = name}

\* The state threaded through one handler: the scene, the selection, the
\* exception raised so far ("none" when none), the message logged or raised, the nodes created with the
\* parent each had when created, the controllers finished, and the last
\* command's return value.
Start(n, sel) ==
    [nodes |-> n, sel |-> sel, err |-> "none", msg |-> "", made |-> <<>>, ctrls |-> <<>>, ret |-> <<>>]

\* cmds.group(children, name=requested, world=world); empty=True is children = {}.
\* The new group is made under the world, or without world=True under the
\* children's common parent; the children move under it; it becomes the selection.
GroupAs(st, children, actual, parent) ==
    [st EXCEPT !.nodes = [k \in DOMAIN st.nodes \cup {actual} |->
                            IF k = actual THEN NewNode("transform", parent)
                            ELSE IF k \in children THEN [st.nodes[k] EXCEPT !.parent = actual]
                            ELSE st.nodes[k]],
               !.sel = <<Item(actual)>>,
               !.made = Append(st.made, [kind |-> "group", name |-> actual, parent |-> parent]),
               !.ret = actual]
CommonParent(n, children) ==
    IF Cardinality({n[c].parent : c \in children}) # 1 THEN WORLD
    ELSE CHOOSE p \in {n[c].parent : c \in children} : TRUE
Group(st, children, requested, world) ==
    GroupAs(st, children, HostName(requested, st.nodes),
            IF world THEN WORLD ELSE CommonParent(st.nodes, children))

\* cmds.circle(name=requested): the curve is made under the world and selected
CircleAs(st, actual) ==
    [st EXCEPT !.nodes = (actual :> NewNode("nurbsCurve", WORLD)) @@ st.nodes,
               !.sel = <<Item(actual)>>,
               !.made = Append(st.made, [kind |-> "circle", name |-> actual, parent |-> WORLD]),
               !.ret = actual]
Circle(st, requested) == CircleAs(st, HostName(requested, st.nodes))

(***************************************************************************)
(* RiggingToolsUI (main.py).                                               *)
(***************************************************************************)
\* QColor of the three preset buttons and of the colour picker, as 8-bit
\* channels; QColor.redF() is the channel over 255.
QRed == <<255, 0, 0>>
QBlue == <<0, 0, 255>>
QYellow == <<255, 255, 0>>
PresetColors == {QRed, QBlue, QYellow}
Invalid == "invalid"
PickerResults == {Invalid, QRed}
ColorF(c) == [num |-> c, den |-> 255]

\* set_color: the stored colour is (redF, greenF, blueF)
StoredColor(color) == <<ColorF(color[1]), ColorF(color[2]), ColorF(color[3])>>

\* unique_ctrl_name
RECURSIVE ctrl_name_loop(_, _, _)
ctrl_name_loop(n, base_name, i) ==
    LET name == base_name \o <<"_">> \o Fmt02d(i) \o CTRL
    IN  IF ~objExists(n, name) THEN name ELSE ctrl_name_loop(n, base_name, i + 1)
unique_ctrl_name(n, base_name) ==
    LET name == base_name \o CTRL
    IN  IF ~objExists(n, name) THEN name ELSE ctrl_name_loop(n, base_name, 1)

\* match_objects_space: move_object takes target_object's world translation;
\* getSelectionListByName raises when the name identifies nothing
MoveTo(st, target, move) ==
    IF target = {} \/ move = {} THEN [st EXCEPT !.err = "RuntimeError"]
    ELSE [st EXCEPT !.nodes = [st.nodes EXCEPT ![CHOOSE k \in move : TRUE].t =
                                   st.nodes[CHOOSE k \in target : TRUE].t]]
match_objects_space(st, target_object, move_object) ==
    MoveTo(st, Resolve(st.nodes, target_object), Resolve(st.nodes, move_object))

\* set_controller_color: r, g, b = self.ctrl_color raises TypeError on None
set_controller_color(st, controller) ==
    IF ctrl_color = None THEN [st EXCEPT !.err = "TypeError"]
    ELSE [st EXCEPT !.nodes = [st.nodes EXCEPT ![controller].color = ctrl_color]]

\* create_curve_offset_group, statement by statement
Colored(st, controller) ==
    IF st.err # "none" THEN st ELSE set_controller_color(st, controller)
Matched(st, controller_name, controller, offset_group) ==
    Colored(IF custom_name = FALSE
            THEN match_objects_space(st, controller_name, offset_group)
            ELSE st,
            controller)
Noted(st, controller_name, controller) ==
    Matched([st EXCEPT !.ctrls = Append(st.ctrls,
                 [ctrl |-> controller, offset |-> st.ret,
                  target |-> IF custom_name THEN None ELSE controller_name])],
            controller_name, controller, st.ret)
Grouped(st, controller_name, short_controller_name) ==
    Noted(Group(st, {st.ret}, short_controller_name \o OFFSET, FALSE),
          controller_name, st.ret)
Named(st, controller_name, short_controller_name) ==
    Grouped(Circle(st, short_controller_name), controller_name, short_controller_name)
create_curve_offset_group(st, controller_name) ==
    Named(st, controller_name, unique_ctrl_name(st.nodes, LastSegment(controller_name)))

\* get_selected_object_name, consumed by the loop of create_blank_controller:
\* sel is the snapshot taken when the generator starts; non-DAG items raise
\* in getDagPath and are skipped; an exception in the loop body ends it.
RECURSIVE for_obj_in_selected(_, _)
for_obj_in_selected(st, sel) ==
    IF sel = <<>> \/ st.err # "none" THEN st
    ELSE IF ~IsDag(st.nodes, Head(sel).node) THEN for_obj_in_selected(st, Tail(sel))
    ELSE for_obj_in_selected(
             create_curve_offset_group(st, FullPathName(st.nodes, Head(sel).node)),
             Tail(sel))

\* create_blank_controller, with text the content of ctrl_name_field
\* a faulty variant of the test below: the text is not stripped
NameRejectedUnstripped(text) == custom_name /\ text = <<>>
\* lines 268-272: the custom name is rejected
NameRejected(text) == custom_name /\ Strip(text) = <<>>
Restored(st, orig_sel) ==
    IF st.err # "none" THEN st
    ELSE [st EXCEPT !.sel = orig_sel, !.ret = "finished", !.msg = "Finished creating ctrls"]
create_blank_controller(st, text) ==
    IF NameRejected(text)
    THEN [st EXCEPT !.ret = "warning", !.msg = "Button Controler name cannot be empty."]
    ELSE Restored(IF custom_name
                  THEN create_curve_offset_group(st, Strip(text))
                  ELSE for_obj_in_selected(st, st.sel),
                  st.sel)

\* create_rig_template, with text the content of rig_temp_name_field; the
\* groups made so far are st.made[1..]: prx_group, rnd_group, geo_group,
\* anim_group, export_group, joint_group, ctrl_group
\* a faulty variant of the test below: the text is not stripped
RigRejectedUnstripped(text) == text = <<>>
\* lines 141-144: the rig name is rejected
RigRejected(text) == Strip(text) = <<>>
Made(st, i) == st.made[i].name
\* a faulty variant of the root group: ctrl_group is left out
RigRootNoCtrl(st, rig_name) == Group(st, {Made(st, 3), Made(st, 6)}, rig_name, FALSE)
\* line 153: the root group, made without world=True
RigRoot(st, rig_name) ==
    Group(st, {Made(st, 3), Made(st, 6), Made(st, 7)}, rig_name, FALSE)
RigCtrl(st) == Group(st, {}, CTRL_GRP, TRUE)
RigJoint(st) == Group(st, {Made(st, 4), Made(st, 5)}, JNT_GRP, TRUE)
RigExport(st) == Group(st, {}, EXPORT_GRP, TRUE)
RigAnim(st) == Group(st, {}, ANIM_GRP, TRUE)
RigGeo(st) == Group(st, {Made(st, 1), Made(st, 2)}, GEO_GRP, TRUE)
RigRnd(st) == Group(st, {}, RENDER_GRP, TRUE)
RigPrx(st) == Group(st, {}, PRX_GRP, TRUE)
create_rig_template(st, text) ==
    IF RigRejected(text)
    THEN [st EXCEPT !.ret = "warning", !.msg = "No rig name has been specified."]
    ELSE [RigRoot(RigCtrl(RigJoint(RigExport(RigAnim(RigGeo(RigRnd(RigPrx(st))))))),
                  Strip(text))
          EXCEPT !.ret = "done"]

(***************************************************************************)
(* The dialog as a state machine: the user's events and the two buttons.   *)
(***************************************************************************)
ObjA == <<"a">>
ObjB == <<"b">>
Shader == <<"s", "h", "d">>
TakenName == <<"b">> \o CTRL
UserObjects == {ObjA, ObjB, Shader}
UserScene ==
    (TakenName :> [type |-> "transform", parent |-> WORLD, t |-> ORIGIN, color |-> None])
    @@ (ObjA :> [type |-> "transform", parent |-> WORLD, t |-> <<1, 2, 3>>, color |-> None])
    @@ (ObjB :> [type |-> "transform", parent |-> ObjA, t |-> <<4, 5, 6>>, color |-> None])
    @@ (Shader :> [type |-> "shader", parent |-> WORLD, t |-> ORIGIN, color |-> None])

CtrlTexts == {<<>>, <<" ", "\t">>, <<" ", "a", " ">>, <<"c">>}
RigTexts == {<<>>, <<"\t", " ">>, <<" ", "r", " ">>, <<"c", "h", "a", "r", "A">>, GEO_GRP}

\* what the user may have selected: nothing, one object, two objects in
\* either order, a non-DAG node alone or before an object
UserSelections ==
    {<<>>, <<Item(ObjA)>>, <<Item(ObjB)>>, <<Item(ObjA), Item(ObjB)>>,
     <<Item(ObjB), Item(ObjA)>>, <<Item(Shader)>>, <<Item(Shader), Item(ObjA)>>}

NoOp ==
    [op |-> "none", text |-> <<>>, pre_nodes |-> <<>>, pre_sel |-> <<>>,
     pre_color |-> None, pre_custom |-> FALSE,
     err |-> "none", msg |-> "", made |-> <<>>, ctrls |-> <<>>, ret |-> <<>>]
Ran(op, text, s) ==
    [op |-> op, text |-> text, pre_nodes |-> nodes, pre_sel |-> selection,
     pre_color |-> ctrl_color, pre_custom |-> custom_name,
     err |-> s.err, msg |-> s.msg, made |-> s.made, ctrls |-> s.ctrls, ret |-> s.ret]

Handled(op, text, s) ==
    /\ nodes' = s.nodes
    /\ selection' = s.sel
    /\ last' = Ran(op, text, s)

Curves(n) == {k \in DOMAIN n : n[k].type = "nurbsCurve"}
Rigs(n) == {k \in DOMAIN n : Len(k) >= Len(PRX_GRP) /\ SubSeq(k, 1, Len(PRX_GRP)) = PRX_GRP}

Init ==
    /\ nodes = UserScene
    /\ selection \in UserSelections
    /\ ctrl_color = None
    /\ custom_name = FALSE
    /\ last = NoOp

\* the user changes the active selection in the host
UserSelect ==
    /\ \E s \in UserSelections : selection' = s
    /\ last' = NoOp
    /\ UNCHANGED <<nodes, ctrl_color, custom_name>>

\* ctrl_custom_name_checkbox toggled
ToggleCustomName ==
    /\ custom_name' = ~custom_name
    /\ last' = NoOp
    /\ UNCHANGED <<nodes, selection, ctrl_color>>

\* red_btn, blue_btn, yellow_btn clicked: set_color(QColor(...))
ClickPreset ==
    /\ \E c \in PresetColors : ctrl_color' = StoredColor(c)
    /\ last' = NoOp
    /\ UNCHANGED <<nodes, selection, custom_name>>

\* ctrl_color_btn clicked: get_picker_color
get_picker_color ==
    /\ \E c \in PickerResults :
          ctrl_color' = IF c # Invalid THEN StoredColor(c) ELSE ctrl_color
    /\ last' = NoOp
    /\ UNCHANGED <<nodes, selection, custom_name>>

\* ctrl_create_btn clicked
ClickCreateController ==
    /\ Cardinality(Curves(nodes)) < MaxCtrls
    /\ \E text \in CtrlTexts :
          Handled("create_blank_controller", text,
                  create_blank_controller(Start(nodes, selection), text))
    /\ UNCHANGED <<ctrl_color, custom_name>>

\* rig_temp_create_btn clicked
ClickCreateRig ==
    /\ Cardinality(Rigs(nodes)) < MaxRigs
    /\ \E text \in RigTexts :
          Handled("create_rig_template", text,
                  create_rig_template(Start(nodes, selection), text))
    /\ UNCHANGED <<ctrl_color, custom_name>>

\* The dialog with its create-controller button in use.
Next ==
    \/ UserSelect
    \/ ToggleCustomName
    \/ ClickPreset
    \/ get_picker_color
    \/ ClickCreateController

Spec == Init /\ [][Next]_vars

\* The dialog with its create-rig-template button in use.
NextRig ==
    \/ UserSelect
    \/ ToggleCustomName
    \/ ClickPreset
    \/ get_picker_color
    \/ ClickCreateRig

SpecRig == Init /\ [][NextRig]_vars

(***************************************************************************)
(* Properties of the dialog.  Blank and Core state, without strip(), what  *)
(* a blank text is and what a text holds between its surrounding blanks.   *)
(***************************************************************************)
Blank(text) == \A i \in 1..Len(text) : text[i] \in Whitespace
Core(text) ==
    LET solid == {i \in 1..Len(text) : text[i] \notin Whitespace}
    IN  IF solid = {} THEN <<>>
        ELSE SubSeq(text, CHOOSE i \in solid : \A j \in solid : i <= j, Max(solid))

AfterCtrl == last.op = "create_blank_controller"
AfterRig == last.op = "create_rig_template"
DagItems(n, sel) == SelectSeq(sel, LAMBDA it : IsDag(n, it.node))
Added == DOMAIN nodes \ DOMAIN last.pre_nodes
Kept == \A k \in DOMAIN last.pre_nodes : k \in DOMAIN nodes /\ nodes[k] = last.pre_nodes[k]

\* C1: after create_blank_controller has run in selection mode on a
\* selection of one or more objects, the active selection is the list that
\* was active when it started, in membership and order, whatever the
\* dialog's state.
C1_SelectionRestored ==
    (AfterCtrl /\ ~last.pre_custom /\ Len(last.pre_sel) >= 1)
        => selection = last.pre_sel

\* C3: with no colour stored, create_blank_controller fails before any curve
\* creation is attempted: it reports a failure and adds no curve and no
\* offset group, in either naming mode.
C3_NoColorNoCreation ==
    (AfterCtrl /\ last.pre_color = None)
        => /\ last.made = <<>>
           /\ Added = {}
           /\ (~(last.pre_custom /\ Blank(last.text)) => last.err # "none")

\* C6: in custom-name mode with an empty or whitespace-only name field,
\* create_blank_controller changes nothing in the scene, emits a warning,
\* and leaves the active selection and the stored colour as they were.
C6_BlankCustomNameNoMutation ==
    (AfterCtrl /\ last.pre_custom /\ Blank(last.text))
        => /\ nodes = last.pre_nodes
           /\ last.made = <<>>
           /\ last.ret = "warning"
           /\ last.err = "none"
           /\ selection = last.pre_sel
           /\ ctrl_color = last.pre_color
C6_Witness ==
    /\ AfterCtrl /\ last.pre_custom
    /\ Blank(last.text) /\ Len(last.text) > 0
    /\ last.ret = "warning"
    /\ Curves(nodes) # {}

\* C8: the checkbox read at creation time decides the flow.  Off: exactly
\* one controller (curve under a {ctrl_name}_offset group) per selected DAG
\* object, non-DAG items skipped, each offset group at its target's world
\* translation.  On with a non-blank name: exactly one controller from the
\* typed text, whatever the selection, aligned to nothing.
IsController(c) ==
    /\ c.ctrl \in Added /\ c.offset \in Added
    /\ nodes[c.ctrl].type = "nurbsCurve"
    /\ nodes[c.ctrl].parent = c.offset
    /\ c.offset = c.ctrl \o OFFSET
C8_CheckboxDecidesFlow ==
    AfterCtrl =>
        /\ Cardinality(Added) = 2 * Len(last.ctrls)
        /\ \A i \in 1..Len(last.ctrls) : IsController(last.ctrls[i])
        /\ ~last.pre_custom =>
              LET objs == DagItems(last.pre_nodes, last.pre_sel)
              IN  /\ Len(last.ctrls) = Len(objs)
                  /\ \A i \in 1..Len(objs) :
                        /\ last.ctrls[i].target = FullPathName(last.pre_nodes, objs[i].node)
                        /\ nodes[last.ctrls[i].offset].t = nodes[objs[i].node].t
        /\ (last.pre_custom /\ ~Blank(last.text)) =>
              /\ Len(last.ctrls) = 1
              /\ LastSegment(Core(last.text)) \o CTRL = last.ctrls[1].ctrl
                   \/ \E i \in 1..Cardinality(DOMAIN nodes) :
                         LastSegment(Core(last.text)) \o <<"_">> \o Fmt02d(i) \o CTRL
                             = last.ctrls[1].ctrl
              /\ nodes[last.ctrls[1].offset].t = ORIGIN
              /\ last.ctrls[1].target = None

\* C7: with a blank or whitespace-only rig-name field, create_rig_template
\* changes nothing in the scene (none of the eight groups is made), emits a
\* warning, and raises nothing.
C7_BlankRigNameNoMutation ==
    (AfterRig /\ Blank(last.text))
        => /\ nodes = last.pre_nodes
           /\ last.made = <<>>
           /\ last.ret = "warning"
           /\ last.err = "none"
C7_Witness ==
    /\ AfterRig
    /\ Blank(last.text) /\ Len(last.text) > 0
    /\ last.ret = "warning"

\* C4: the hierarchy create_rig_template builds.
SevenGroups == {PRX_GRP, RENDER_GRP, GEO_GRP, ANIM_GRP, EXPORT_GRP, JNT_GRP, CTRL_GRP}
RigHierarchy(R) ==
    /\ Children(nodes, GEO_GRP) = {PRX_GRP, RENDER_GRP}
    /\ Children(nodes, JNT_GRP) = {ANIM_GRP, EXPORT_GRP}
    /\ Children(nodes, R) = {GEO_GRP, JNT_GRP, CTRL_GRP}
    /\ Added = SevenGroups \cup {R}
    /\ Cardinality(Added) = 8
    /\ \A k \in Added : nodes[k].type = "transform"
    /\ \A k \in {PRX_GRP, RENDER_GRP, ANIM_GRP, EXPORT_GRP, CTRL_GRP} : Children(nodes, k) = {}
    /\ Kept
    /\ Len(last.made) = 8
    /\ \A i \in 1..Len(last.made) : last.made[i].parent = WORLD
\* C4 as stated: for every non-blank rig name R, from a scene that holds none
\* of the group names, geo_grp has exactly the children {prx_grp,
\* render_grp}, jnt_grp exactly {anim_grp, export_grp}, R exactly {geo_grp,
\* jnt_grp, ctrl_grp}; seven groups and the root are added and nothing else,
\* each made at the world root before it is reparented.
C4_AnyRigName ==
    (/\ AfterRig /\ ~Blank(last.text)
     /\ (SevenGroups \cup {Core(last.text)}) \cap DOMAIN last.pre_nodes = {})
        => RigHierarchy(Core(last.text))
\* C4 amended: the same, for every non-blank rig name R that is none of the
\* seven fixed group names.
C4_RigNameNotAGroupName ==
    (/\ AfterRig /\ ~Blank(last.text)
     /\ (SevenGroups \cup {Core(last.text)}) \cap DOMAIN last.pre_nodes = {}
     /\ Core(last.text) \notin SevenGroups)
        => RigHierarchy(Core(last.text))
C4_Witness ==
    /\ AfterRig
    /\ last.text = <<" ", "r", " ">>
    /\ SevenGroups \cap DOMAIN last.pre_nodes = {}
    /\ Children(nodes, <<"r">>) = {GEO_GRP, JNT_GRP, CTRL_GRP}
    /\ selection = <<Item(<<"r">>)>>

(***************************************************************************)
(* unique_ctrl_name as a function of the base name and the scene.          *)
(***************************************************************************)
SceneOf(S) == [k \in S |-> NewNode("transform", WORLD)]
TwoDigits(n) == <<DigitChars[(n \div 10) + 1], DigitChars[(n % 10) + 1]>>
\* {base}_NN_ctrl with NN of exactly two digits, for 1 <= n <= 99
CandTwo(base, n) == base \o <<"_">> \o TwoDigits(n) \o CTRL
\* {base}_ctrl for n = 0, else {base}_NN_ctrl with NN zero-padded to at
\* least two digits
Cand(base, n) ==
    IF n = 0 THEN base \o CTRL
    ELSE base \o <<"_">> \o (IF n < 100 THEN TwoDigits(n) ELSE Dec(n)) \o CTRL

NameBases == {<<"a">>, <<"a", "_", "0", "1">>, <<"b">>}
NamePool == {Cand(b, n) : b \in NameBases, n \in 0..MaxCounter}
FullScene == {Cand(<<"a">>, n) : n \in 0..FullCount}
NameScenes == (SUBSET NamePool) \cup {FullScene}

InitName ==
    /\ nodes \in {SceneOf(S) : S \in NameScenes}
    /\ selection = <<>>
    /\ ctrl_color = None
    /\ custom_name = FALSE
    /\ last = NoOp

CallUniqueCtrlName ==
    /\ \E base \in NameBases :
          last' = [NoOp EXCEPT !.op = "unique_ctrl_name", !.text = base,
                               !.ret = unique_ctrl_name(nodes, base)]
    /\ UNCHANGED <<nodes, selection, ctrl_color, custom_name>>

NextName == CallUniqueCtrlName

SpecName == InitName /\ [][NextName]_vars

AfterName == last.op = "unique_ctrl_name"

Dbl(hi, lo) == [hi |-> hi, lo |-> lo]
Whole(k) == Dbl(0, k)
Big == Dbl(1, 0)
NegBig == Dbl(-1, 0)
Neg(x) == Dbl(-x.hi, -x.lo)
Plus(x, y) == Dbl(x.hi + y.hi, x.lo + y.lo)     \* the real sum

RECURSIVE Pow2Above(_)
\* the least power of two above m >= 0 (1, 2, 4, 4, 8, ...)
Pow2Above(m) == IF m = 0 THEN 1 ELSE 2 * Pow2Above(m \div 2)
\* the spacing of the doubles at x >= 0
Ulp(x) == Pow2Above(IF x.lo >= 0 THEN x.hi ELSE x.hi - 1)

\* lo rounded to a multiple of u, a tie to the even multiple
RoundTo(lo, u) ==
    IF 2 * (lo % u) < u THEN (lo \div u) * u
    ELSE IF 2 * (lo % u) > u THEN ((lo \div u) + 1) * u
    ELSE IF (lo \div u) % 2 = 0 THEN (lo \div u) * u
    ELSE ((lo \div u) + 1) * u
RoundPos(x) == IF x.hi = 0 THEN x ELSE Dbl(x.hi, RoundTo(x.lo, Ulp(x)))
Round(x) == IF x.hi < 0 THEN Neg(RoundPos(Neg(x))) ELSE RoundPos(x)

\* MPoint += MPoint, coordinate by coordinate in double arithmetic
FAdd(x, y) == Round(Plus(x, y))
PointAdd(c, p) == <<FAdd(c[1], p[1]), FAdd(c[2], p[2]), FAdd(c[3], p[3])>>

\* MPoint /= n: in each coordinate the double nearest to s / n, kept as the
\* pair; equal pairs are equal doubles.
Quot(s, n) == [s |-> s, n |-> n]
PointDiv(c, n) == <<Quot(c[1], n), Quot(c[2], n), Quot(c[3], n)>>

\* center = om.MPoint(); for p in points: center += p
RECURSIVE Accumulate(_, _)
Accumulate(center, points) ==
    IF points = <<>> THEN center
    ELSE Accumulate(PointAdd(center, Head(points)), Tail(points))

\* a faulty variant of the average: center = p instead of center += p
CenterKeepLast(points) == PointDiv(points[Len(points)], Len(points))
\* lines 35-42: the average of the points collected
CenterOf(points) ==
    PointDiv(Accumulate(<<Whole(0), Whole(0), Whole(0)>>, points), Len(points))

\* The meshes of the scene and the world-space position of their vertices
\* (MFnMesh.getPoint(vtx_id, kWorld)), vertex ids from 0.
MeshP == <<"p">>
MeshQ == <<"q">>
MeshPoints(mesh) ==
    IF mesh = MeshP
    THEN << <<Big, Whole(0), Whole(2)>>, <<Whole(1), Whole(1), Whole(0)>> >>
    ELSE << <<NegBig, Whole(4), Whole(0)>>, <<Whole(1), Whole(1), Whole(0)>> >>
getPoint(mesh, vtx_id) == MeshPoints(mesh)[vtx_id + 1]
Comp(mesh, kind, elems) == [node |-> mesh, comp |-> kind, elems |-> elems]

EmptyMsg == "We did not find anything selected."
NoVertsMsg == "No mesh vertices selected currently."

\* the loop of selected_vertices_center over the items from index i:
\* getComponent raises for an item that is no DAG path; a component that is
\* not a mesh-vertex component is passed over
ElementPoints(item) == [j \in 1..Len(item.elems) |-> getPoint(item.node, item.elems[j])]
RECURSIVE collect_points(_, _, _, _)
collect_points(n, sel, i, points) ==
    IF i > Len(sel) THEN [err |-> "none", points |-> points]
    ELSE IF ~IsDag(n, sel[i].node) THEN [err |-> "TypeError", points |-> points]
    ELSE IF sel[i].comp # "vtx" THEN collect_points(n, sel, i + 1, points)
    ELSE collect_points(n, sel, i + 1, points \o ElementPoints(sel[i]))

Averaged(st, got) ==
    IF got.err # "none" THEN [st EXCEPT !.err = got.err]
    ELSE IF got.points = <<>>
    THEN [st EXCEPT !.err = "RuntimeError", !.msg = NoVertsMsg]
    ELSE [st EXCEPT !.ret = CenterOf(got.points)]
selected_vertices_center(st) ==
    IF Len(st.sel) = 0 THEN [st EXCEPT !.err = "RuntimeError", !.msg = EmptyMsg]
    ELSE Averaged(st, collect_points(st.nodes, st.sel, 1, <<>>))

\* cmds.joint(name=joint_name), then cmds.move when a position is given;
\* the new joint becomes the selection
JointAs(st, actual, position) ==
    [st EXCEPT !.nodes = (actual :> [NewNode("joint", WORLD) EXCEPT
                                       !.t = IF position # <<>>
                                             THEN <<position[1], position[2], position[3]>>
                                             ELSE ORIGIN]) @@ st.nodes,
               !.sel = <<Item(actual)>>,
               !.made = Append(st.made, [kind |-> "joint", name |-> actual, parent |-> WORLD]),
               !.ret = actual]

\* cmds.ls(name, type="joint")
find_dup_joints(n, name) == {k \in DOMAIN n : k = name /\ n[k].type = "joint"}

\* create_joint: on a duplicate the f-string reads the undefined name `value`
create_joint(st, name, sufix, position) ==
    IF find_dup_joints(st.nodes, name) # {}
    THEN [st EXCEPT !.err = IF sufix = <<>> THEN "ValueError" ELSE "NameError"]
    ELSE JointAs(st, HostName(name \o <<"_">> \o sufix, st.nodes), position)

\* create_joint_at_cetered
Test == <<"t", "e", "s", "t">>
Jnt == <<"j", "n", "t">>
JointAtCenter(st) ==
    IF st.err # "none" THEN st ELSE create_joint(st, Test, Jnt, st.ret)
create_joint_at_cetered(st) == JointAtCenter(selected_vertices_center(st))

(***************************************************************************)
(* The joint helper as a state machine: a scene, a selection, and calls of *)
(* the module's three functions.                                           *)
(***************************************************************************)
JointScene ==
    (MeshP :> [type |-> "mesh", parent |-> WORLD, t |-> ORIGIN, color |-> None])
    @@ (MeshQ :> [type |-> "mesh", parent |-> WORLD, t |-> ORIGIN, color |-> None])
    @@ (ObjA :> [type |-> "transform", parent |-> WORLD, t |-> ORIGIN, color |-> None])
    @@ (Shader :> [type |-> "shader", parent |-> WORLD, t |-> ORIGIN, color |-> None])
\* the same scene with a joint that the user named "test"
JointSceneWithTest == (Test :> NewNode("joint", WORLD)) @@ JointScene

\* what may be selected: vertices of a mesh, an edge of a mesh, a whole
\* object, a non-DAG node; the host keeps one item per object
JointItems ==
    {Comp(MeshP, "vtx", <<0, 1>>), Comp(MeshP, "vtx", <<1>>), Comp(MeshP, "edge", <<0>>),
     Comp(MeshQ, "vtx", <<0>>), Comp(MeshQ, "vtx", <<0, 1>>), Item(ObjA), Item(Shader)}
OnePerObject(q) == \A i, j \in 1..Len(q) : i # j => q[i].node # q[j].node
JointSelections ==
    {q \in UNION {[1..m -> JointItems] : m \in 0..MaxSel} : OnePerObject(q)}

JointNames == {Test, <<"j">>}
JointPositions == {<<>>, <<Quot(Whole(1), 1), Quot(Whole(2), 1), Quot(Whole(3), 1)>>}
Joints(n) == {k \in DOMAIN n : n[k].type = "joint"} \ {Test}

InitJoint ==
    /\ nodes \in {JointScene, JointSceneWithTest}
    /\ selection \in JointSelections
    /\ ctrl_color = None
    /\ custom_name = FALSE
    /\ last = NoOp

CallSelectedVerticesCenter ==
    /\ last.op # "selected_vertices_center"
    /\ Handled("selected_vertices_center", <<>>,
               selected_vertices_center(Start(nodes, selection)))
    /\ UNCHANGED <<ctrl_color, custom_name>>

CallCreateJointAtCentered ==
    /\ Cardinality(Joints(nodes)) < MaxJoints
    /\ Handled("create_joint_at_cetered", <<>>,
               create_joint_at_cetered(Start(nodes, selection)))
    /\ UNCHANGED <<ctrl_color, custom_name>>

CallCreateJoint ==
    /\ Cardinality(Joints(nodes)) < MaxJoints
    /\ \E name \in JointNames, position \in JointPositions :
          Handled("create_joint", [name |-> name, sufix |-> Jnt, position |-> position],
                  create_joint(Start(nodes, selection), name, Jnt, position))
    /\ UNCHANGED <<ctrl_color, custom_name>>

NextJoint ==
    \/ CallSelectedVerticesCenter
    \/ CallCreateJointAtCentered
    \/ CallCreateJoint

SpecJoint == InitJoint /\ [][NextJoint]_vars

(***************************************************************************)
(* Properties of the joint helper.                                         *)
(***************************************************************************)
AfterCenter == last.op = "selected_vertices_center"
AfterJointAtCenter == last.op = "create_joint_at_cetered"
AfterJoint == last.op = "create_joint"

\* C5: create_joint(base, suffix, position) names the joint {base}_{suffix},
\* or, when a joint matching the bare base name exists, a disambiguated name
\* that differs from every existing name; exactly one joint node is added
\* under that name, moved to the position when one is supplied, and the
\* name is returned.
C5_JointCreatedAndNamed ==
    AfterJoint =>
        /\ last.err = "none"
        /\ Added = {last.ret}
        /\ Kept
        /\ nodes[last.ret].type = "joint"
        /\ find_dup_joints(last.pre_nodes, last.text.name) = {}
              => last.ret = last.text.name \o <<"_">> \o last.text.sufix
        /\ last.text.position # <<>> => nodes[last.ret].t = last.text.position

\* C9: selected_vertices_center fails with an error on an empty selection,
\* with a different error on a selection that holds no mesh-vertex
\* component, passes over the items that are not mesh-vertex components
\* without error, and leaves scene and selection as they were;
\* create_joint_at_cetered creates no joint when either error occurs.
HasVertices(sel) == \E i \in 1..Len(sel) : sel[i].comp = "vtx"
C9_CenterErrorsAndSkips ==
    /\ EmptyMsg # NoVertsMsg
    /\ AfterCenter =>
          /\ nodes = last.pre_nodes
          /\ selection = last.pre_sel
          /\ last.pre_sel = <<>> => (last.err # "none" /\ last.msg = EmptyMsg)
          /\ (last.pre_sel # <<>> /\ ~HasVertices(last.pre_sel))
                => (last.err # "none" /\ last.msg = NoVertsMsg)
          /\ HasVertices(last.pre_sel) => last.err = "none"
    /\ (AfterJointAtCenter /\ ~HasVertices(last.pre_sel))
          => (last.err # "none" /\ nodes = last.pre_nodes)

\* C10: the centroid and the mean.
RECURSIVE SelectedPoints(_)
SelectedPoints(sel) ==
    IF sel = <<>> THEN <<>>
    ELSE (IF Head(sel).comp = "vtx" THEN ElementPoints(Head(sel)) ELSE <<>>)
         \o SelectedPoints(Tail(sel))
RECURSIVE SumOver(_, _)
SumOver(f, S) ==
    IF S = {} THEN 0
    ELSE LET i == CHOOSE j \in S : TRUE IN f[i] + SumOver(f, S \ {i})
\* the real sum of coordinate c of the points, whatever their order
RealSum(points, c) ==
    Dbl(SumOver([i \in 1..Len(points) |-> points[i][c].hi], 1..Len(points)),
        SumOver([i \in 1..Len(points) |-> points[i][c].lo], 1..Len(points)))
RealMean(points) ==
    <<Quot(RealSum(points, 1), Len(points)), Quot(RealSum(points, 2), Len(points)),
      Quot(RealSum(points, 3), Len(points))>>
Representable(x) ==
    LET y == IF x.hi < 0 THEN Neg(x) ELSE x
    IN  y.hi = 0 \/ y.lo % Ulp(y) = 0
\* no partial sum of the points, taken in this order, is rounded
SumsExact(points) ==
    \A k \in 1..Len(points), c \in 1..3 : Representable(RealSum(SubSeq(points, 1, k), c))
Orders(points) ==
    {[i \in 1..Len(points) |-> points[f[i]]] :
        f \in {g \in [1..Len(points) -> 1..Len(points)] :
                  \A i, j \in 1..Len(points) : i # j => g[i] # g[j]}}
\* two quotients by the same count of distinct integers below 2^53 are
\* distinct doubles
Differ(a, b) == a.n = b.n /\ a.s # b.s /\ a.s.hi = 0 /\ b.s.hi = 0
PointsDiffer(a, b) == \E c \in 1..3 : Differ(a[c], b[c])
CenterTaken == (AfterCenter /\ last.err = "none")

====
